---- MODULE Spec2Model ----
(***************************************************************************)
(* Model of implicit_self.py.                                              *)
(*                                                                         *)
(* Mechanism A: ImplicitSelfDecorator.__get__ / decorated, statement by    *)
(* statement, over the shared dictionary func.__globals__.                 *)
(* Mechanism B: resolve_dynamic_var walking the frame stack, and           *)
(* SelfClsDescriptor.__get__ / decorated.                                  *)
(* Class construction: ImplicitSelfMetaclass.__new__ and                   *)
(* SelfClsMetaclass.__new__.                                               *)
(***************************************************************************)
EXTENDS Integers, Sequences, FiniteSets, TLC

\* ------------------------------------------------------------------------
\* Bounds
\* ------------------------------------------------------------------------
MaxDepth == 2
MaxNest == 2
MaxKeys == 3

\* ------------------------------------------------------------------------
\* Values
\* ------------------------------------------------------------------------
None == "None"
Absent == "<absent>"
Unset == "<unset>"
Unread == "<unread>"

Instances == {"a", "b"}
Classes == {"A", "A2"}

\* type(obj)
TypeOf(obj) == IF obj = "a" THEN "A" ELSE "A2"

Threads == {"T1", "T2"}
MainThread == "T1"

\* the receivers of an attribute access x.m: an instance or the class itself
Receivers == Instances \cup Classes

\* ------------------------------------------------------------------------
\* State
\* ------------------------------------------------------------------------
VARIABLES
    globals,   \* func.__globals__, restricted to the names 'self' and 'cls'
    stack,     \* per thread: the active decorated calls, outermost first
    exc,       \* per thread: the exception being propagated, or None
    outcomes,  \* per thread: the outcomes its top-level calls have had so far
    frames,    \* Mechanism B: the interpreter's frame stack, outermost first
    d,         \* class construction: the namespace dict passed to __new__
    d0,        \* class construction: the namespace as the class body left it
    metaclass, \* class construction: the metaclass that is called
    keyIdx,    \* class construction: position of "for key in d"
    klass,     \* class construction: __dict__ of the class created, <<>> before
    bound      \* class construction: what the last attribute access returned

avars == <<globals, stack, exc, outcomes>>
bvars == <<frames>>
mvars == <<d, d0, metaclass, keyIdx, klass, bound>>

vars == <<globals, stack, exc, outcomes, frames, d, d0, metaclass, keyIdx, klass, bound>>

\* ------------------------------------------------------------------------
\* Mechanism A
\* ------------------------------------------------------------------------

\* ImplicitSelfDecorator.__get__(obj, cls): the closure variables of decorated
ImplicitSelfDecorator_get(obj, cls) ==
    [selfvar |-> obj,
     clsvar  |-> IF obj # None THEN TypeOf(obj) ELSE cls]

\* the attribute access r.m as Python performs it: a.m calls
\* __get__(a, type(a)), C.m calls __get__(None, C)
Access(r) ==
    IF r \in Instances THEN ImplicitSelfDecorator_get(r, TypeOf(r))
    ELSE ImplicitSelfDecorator_get(None, r)

\* a fresh frame of decorated, before its first statement. pre is what the
\* caller saw in func.__globals__ when it made the call (kept for
\* single-threaded runs, where "the state before the call" is well defined)
NoSnapshot == [self |-> Unset, cls |-> Unset]

NewFrame(r, g) ==
    [pc |-> "L21",
     selfvar |-> Access(r).selfvar,
     clsvar |-> Access(r).clsvar,
     self_defined |-> Unset, oldself |-> Unset,
     cls_defined |-> Unset, oldcls |-> Unset,
     readself |-> Unread, readcls |-> Unread,
     nested |-> "none", nestedRecv |-> None,
     pre |-> g]

Depth(t) == Len(stack[t])
Top(t) == stack[t][Depth(t)]
Raising(t) == exc[t].type # None
Running(t) == Depth(t) > 0 /\ ~Raising(t)

SetTop(t, f) == [stack EXCEPT ![t] = [@ EXCEPT ![Len(@)] = f]]
Pop(t) == [stack EXCEPT ![t] = SubSeq(@, 1, Len(@) - 1)]

NoExc == [type |-> None, tb |-> <<>>]
MkExc(type) == [type |-> type, tb |-> <<>>]

\* what a top-level caller sees of a call: it returned, or it raised an
\* exception of some type while decorated was saving (lines 21-26), in the
\* body (line 30), or while decorated was restoring (lines 32-39), as the
\* innermost traceback entry tells
Phase(pc) ==
    IF pc \in {"L21", "L22", "L24", "L25"} THEN "save"
    ELSE IF pc \in {"L32", "L36"} THEN "restore"
    ELSE "body"

Returned == [type |-> "ok", at |-> "return"]
Raised(e) == [type |-> e.type, at |-> Phase(e.tb[1].pc)]

\* a statement of the top frame raises
RaiseIn(t, type) ==
    /\ exc' = [exc EXCEPT ![t] = MkExc(type)]
    /\ UNCHANGED <<globals, stack, outcomes>>

\* decorated(...) is called: at top level, or by a statement of the body of
\* a decorated call (a method that calls other methods before it does what
\* A.m does)
Call(t, r, maxDepth, snapshot) ==
    /\ ~Raising(t)
    /\ Depth(t) < maxDepth
    /\ IF Depth(t) = 0
       THEN stack' = [stack EXCEPT ![t] = <<NewFrame(r, snapshot)>>]
       ELSE /\ Top(t).pc = "L81"
            /\ stack' = [stack EXCEPT ![t] =
                   Append([@ EXCEPT ![Len(@)] = [Top(t) EXCEPT !.nestedRecv = r]],
                          NewFrame(r, snapshot))]
    /\ UNCHANGED <<globals, exc, outcomes>>
    /\ UNCHANGED <<bvars, mvars>>

\* line 21: self_defined = 'self' in func.__globals__
L21(t) ==
    /\ Running(t) /\ Top(t).pc = "L21"
    /\ stack' = SetTop(t, [Top(t) EXCEPT !.self_defined = (globals.self # Absent),
                                         !.pc = "L22"])
    /\ UNCHANGED <<globals, exc, outcomes>>
    /\ UNCHANGED <<bvars, mvars>>

\* lines 22-23: if self_defined: oldself = func.__globals__['self']
L22(t) ==
    /\ Running(t) /\ Top(t).pc = "L22"
    /\ IF Top(t).self_defined
       THEN IF globals.self = Absent
            THEN RaiseIn(t, "KeyError")
            ELSE /\ stack' = SetTop(t, [Top(t) EXCEPT !.oldself = globals.self,
                                                      !.pc = "L24"])
                 /\ UNCHANGED <<globals, exc, outcomes>>
       ELSE /\ stack' = SetTop(t, [Top(t) EXCEPT !.pc = "L24"])
            /\ UNCHANGED <<globals, exc, outcomes>>
    /\ UNCHANGED <<bvars, mvars>>

\* line 24: cls_defined = 'cls' in func.__globals__
L24(t) ==
    /\ Running(t) /\ Top(t).pc = "L24"
    /\ stack' = SetTop(t, [Top(t) EXCEPT !.cls_defined = (globals.cls # Absent),
                                         !.pc = "L25"])
    /\ UNCHANGED <<globals, exc, outcomes>>
    /\ UNCHANGED <<bvars, mvars>>

\* lines 25-26: if cls_defined: oldcls = func.__globals__['cls']
L25(t) ==
    /\ Running(t) /\ Top(t).pc = "L25"
    /\ IF Top(t).cls_defined
       THEN IF globals.cls = Absent
            THEN RaiseIn(t, "KeyError")
            ELSE /\ stack' = SetTop(t, [Top(t) EXCEPT !.oldcls = globals.cls,
                                                      !.pc = "L28"])
                 /\ UNCHANGED <<globals, exc, outcomes>>
       ELSE /\ stack' = SetTop(t, [Top(t) EXCEPT !.pc = "L28"])
            /\ UNCHANGED <<globals, exc, outcomes>>
    /\ UNCHANGED <<bvars, mvars>>

\* line 28: func.__globals__['self'] = selfvar
InjectSelf_Cls(g, f) == [g EXCEPT !.self = f.clsvar]

InjectSelf(g, f) == [g EXCEPT !.self = f.selfvar]

L28(t) ==
    /\ Running(t) /\ Top(t).pc = "L28"
    /\ globals' = InjectSelf(globals, Top(t))
    /\ stack' = SetTop(t, [Top(t) EXCEPT !.pc = "L29"])
    /\ UNCHANGED <<exc, outcomes>>
    /\ UNCHANGED <<bvars, mvars>>

\* line 29: func.__globals__['cls'] = clsvar
InjectCls(g, f) == [g EXCEPT !.cls = f.clsvar]

L29(t) ==
    /\ Running(t) /\ Top(t).pc = "L29"
    /\ globals' = InjectCls(globals, Top(t))
    /\ stack' = SetTop(t, [Top(t) EXCEPT !.pc = "L30"])
    /\ UNCHANGED <<exc, outcomes>>
    /\ UNCHANGED <<bvars, mvars>>

\* line 30: result = func(*args, **kw): control enters the method body
L30(t) ==
    /\ Running(t) /\ Top(t).pc = "L30"
    /\ stack' = SetTop(t, [Top(t) EXCEPT !.pc = "L81"])
    /\ UNCHANGED <<globals, exc, outcomes>>
    /\ UNCHANGED <<bvars, mvars>>

\* A.m, line 81: the body reads the global name self
ReadSelf(t) ==
    /\ Running(t) /\ Top(t).pc = "L81"
    /\ IF globals.self = Absent
       THEN RaiseIn(t, "NameError")
       ELSE /\ stack' = SetTop(t, [Top(t) EXCEPT !.readself = globals.self,
                                                 !.pc = "L82"])
            /\ UNCHANGED <<globals, exc, outcomes>>
    /\ UNCHANGED <<bvars, mvars>>

\* A.m, line 82: the body reads the global name cls, and returns to line 30
ReadCls(t) ==
    /\ Running(t) /\ Top(t).pc = "L82"
    /\ IF globals.cls = Absent
       THEN RaiseIn(t, "NameError")
       ELSE /\ stack' = SetTop(t, [Top(t) EXCEPT !.readcls = globals.cls,
                                                 !.pc = "L32"])
            /\ UNCHANGED <<globals, exc, outcomes>>
    /\ UNCHANGED <<bvars, mvars>>

\* a statement of the body raises
BodyRaise(t) ==
    /\ Running(t) /\ Top(t).pc = "L81"
    /\ RaiseIn(t, "Error")
    /\ UNCHANGED <<bvars, mvars>>

\* lines 32-35: restore or delete 'self'
RestoreSelf_NeverDelete(g, f) ==
    IF f.self_defined THEN [g EXCEPT !.self = f.oldself] ELSE g

RestoreSelf_AlwaysDelete(g, f) == [g EXCEPT !.self = Absent]

RestoreSelf(g, f) ==
    IF f.self_defined THEN [g EXCEPT !.self = f.oldself]
    ELSE [g EXCEPT !.self = Absent]

L32(t) ==
    /\ Running(t) /\ Top(t).pc = "L32"
    /\ IF ~Top(t).self_defined /\ globals.self = Absent
       THEN RaiseIn(t, "KeyError")
       ELSE /\ globals' = RestoreSelf(globals, Top(t))
            /\ stack' = SetTop(t, [Top(t) EXCEPT !.pc = "L36"])
            /\ UNCHANGED <<exc, outcomes>>
    /\ UNCHANGED <<bvars, mvars>>

\* lines 36-39: restore or delete 'cls'
RestoreCls_Skip(g, f) == g

RestoreCls(g, f) ==
    IF f.cls_defined THEN [g EXCEPT !.cls = f.oldcls]
    ELSE [g EXCEPT !.cls = Absent]

L36(t) ==
    /\ Running(t) /\ Top(t).pc = "L36"
    /\ IF ~Top(t).cls_defined /\ globals.cls = Absent
       THEN RaiseIn(t, "KeyError")
       ELSE /\ globals' = RestoreCls(globals, Top(t))
            /\ stack' = SetTop(t, [Top(t) EXCEPT !.pc = "L41"])
            /\ UNCHANGED <<exc, outcomes>>
    /\ UNCHANGED <<bvars, mvars>>

\* what the calling body records about a nested call that ended
NestedAfter(f, how) ==
    [f EXCEPT !.nested = IF f.nested = "raised" THEN "raised" ELSE how]

\* line 41: return result
L41(t) ==
    /\ Running(t) /\ Top(t).pc = "L41"
    /\ IF Depth(t) = 1
       THEN /\ stack' = Pop(t)
            /\ outcomes' = [outcomes EXCEPT ![t] = @ \cup {Returned}]
       ELSE /\ stack' = [stack EXCEPT ![t] =
                   [i \in 1..(Len(@) - 1) |->
                       IF i = Len(@) - 1 THEN NestedAfter(@[i], "returned")
                       ELSE @[i]]]
            /\ UNCHANGED outcomes
    /\ UNCHANGED <<globals, exc>>
    /\ UNCHANGED <<bvars, mvars>>

\* an exception leaves the frame of decorated: there is no try statement, so
\* lines 32-39 are not executed
Unwind_Finally(t) ==
    /\ Raising(t)
    /\ Depth(t) > 0
    /\ stack' = Pop(t)
    /\ exc' = [exc EXCEPT ![t] = [@ EXCEPT !.tb = Append(@, Top(t))]]
    /\ globals' = IF Top(t).pc \in {"L81", "L82"}
                  THEN RestoreCls(RestoreSelf(globals, Top(t)), Top(t))
                  ELSE globals
    /\ UNCHANGED outcomes
    /\ UNCHANGED <<bvars, mvars>>

Unwind(t) ==
    /\ Raising(t)
    /\ Depth(t) > 0
    /\ stack' = Pop(t)
    /\ exc' = [exc EXCEPT ![t] = [@ EXCEPT !.tb = Append(@, Top(t))]]
    /\ UNCHANGED <<globals, outcomes>>
    /\ UNCHANGED <<bvars, mvars>>

\* the body that made a nested call catches the exception it raised
BodyCatch(t) ==
    /\ Raising(t)
    /\ Depth(t) > 0
    /\ Top(t).pc = "L81"
    /\ exc[t].tb # <<>>
    /\ stack' = SetTop(t, NestedAfter(Top(t), "raised"))
    /\ exc' = [exc EXCEPT ![t] = NoExc]
    /\ UNCHANGED <<globals, outcomes>>
    /\ UNCHANGED <<bvars, mvars>>

\* the exception reaches the top-level caller
TopCatch(t) ==
    /\ Raising(t)
    /\ Depth(t) = 0
    /\ outcomes' = [outcomes EXCEPT ![t] = @ \cup {Raised(exc[t])}]
    /\ exc' = [exc EXCEPT ![t] = NoExc]
    /\ UNCHANGED <<globals, stack>>
    /\ UNCHANGED <<bvars, mvars>>

\* ------------------------------------------------------------------------
\* Mechanism B
\* ------------------------------------------------------------------------

\* the variable names that frames bind and that are looked up
Names == {"self", "cls", "name", "frame", "obj", "cls_", "x"}

\* f_locals of a frame: a name that is not a local variable maps to Absent
NoLocals == [n \in Names |-> Absent]

\* a frame object; at is where the walk of resolve_dynamic_var stands (its
\* local variable frame, as an index into the stack; 0 is None)
Frame(code, locals, pc) ==
    [code |-> code, locals |-> locals, pc |-> pc, at |-> 0,
     via |-> "none", result |-> Unset,
     nested |-> "none", nestedRecv |-> None]

\* the frames whose code makes calls of its own choosing: module level, an
\* ordinary function, the body of a method of a SelfCls class
UserCode == {"<module>", "plain", "m"}

BTop == frames[Len(frames)]
SetBTop(f) == [frames EXCEPT ![Len(frames)] = f]
CanCall == frames # <<>> /\ BTop.code \in UserCode

\* how many calls of ordinary functions and of decorated are active
NestDepth ==
    Cardinality({i \in 1..Len(frames) : frames[i].code \in {"plain", "decorated"}})

\* the locals an ordinary function may have: none, or (an ordinary method,
\* a classmethod) one named self or cls
PlainLocals ==
    {NoLocals,
     [NoLocals EXCEPT !["self"] = "p"],
     [NoLocals EXCEPT !["cls"] = "P"]}

\* the locals of the body of a method of a SelfCls class: it declares neither
\* self nor cls (it calls the functions of these names)
BodyLocals == {NoLocals, [NoLocals EXCEPT !["x"] = "1"]}

\* an ordinary function is called
CallPlain(ls) ==
    /\ CanCall
    /\ NestDepth < MaxNest
    /\ frames' = Append(SetBTop([BTop EXCEPT !.via = "none", !.result = Unset,
                                             !.nested = "none", !.nestedRecv = None]),
                        Frame("plain", ls, "run"))
    /\ UNCHANGED <<avars, mvars>>

\* SelfClsDescriptor.__get__(obj, cls_), lines 109-119: decorated closes over
\* obj, cls_ and func, which are in its f_locals from the start
SelfClsDescriptor_get(obj, cls_) ==
    [NoLocals EXCEPT !["obj"] = obj, !["cls_"] = cls_]

AccessB(r) ==
    IF r \in Instances THEN SelfClsDescriptor_get(r, TypeOf(r))
    ELSE SelfClsDescriptor_get(None, r)

\* r.m() is called: the frame of decorated (line 113) is entered
CallDecorated(r) ==
    /\ CanCall
    /\ NestDepth < MaxNest
    /\ frames' = Append(SetBTop([BTop EXCEPT !.via = "none", !.result = Unset,
                                             !.nested = "none", !.nestedRecv = r]),
                        Frame("decorated", AccessB(r), "L114"))
    /\ UNCHANGED <<avars, mvars>>

\* line 114: self = obj
BindSelf_Misnamed(ls) == [ls EXCEPT !["x"] = ls["obj"]]

BindSelf(ls) == [ls EXCEPT !["self"] = ls["obj"]]

D_L114 ==
    /\ frames # <<>> /\ BTop.code = "decorated" /\ BTop.pc = "L114"
    /\ frames' = SetBTop([BTop EXCEPT !.locals = BindSelf(@), !.pc = "L115"])
    /\ UNCHANGED <<avars, mvars>>

\* line 115: cls = type(obj) if obj is not None else cls_
BindCls(ls) ==
    [ls EXCEPT !["cls"] = IF ls["obj"] # None THEN TypeOf(ls["obj"]) ELSE ls["cls_"]]

D_L115 ==
    /\ frames # <<>> /\ BTop.code = "decorated" /\ BTop.pc = "L115"
    /\ frames' = SetBTop([BTop EXCEPT !.locals = BindCls(@), !.pc = "L117"])
    /\ UNCHANGED <<avars, mvars>>

\* line 117: return func(*args, **kw): the method body is entered
D_L117 ==
    /\ frames # <<>> /\ BTop.code = "decorated" /\ BTop.pc = "L117"
    /\ \E ls \in BodyLocals :
          frames' = Append(SetBTop([BTop EXCEPT !.pc = "L117ret"]),
                           Frame("m", ls, "run"))
    /\ UNCHANGED <<avars, mvars>>

\* a frame is left: the frame below goes on
PopTo(f) == [i \in 1..(Len(frames) - 1) |->
                IF i = Len(frames) - 1 THEN f ELSE frames[i]]
Below == frames[Len(frames) - 1]

\* an ordinary function or a method body returns
ReturnUser ==
    /\ frames # <<>> /\ BTop.code \in {"plain", "m"}
    /\ frames' = PopTo(Below)
    /\ UNCHANGED <<avars, mvars>>

\* line 117: decorated returns what the body returned
D_Return ==
    /\ frames # <<>> /\ BTop.code = "decorated" /\ BTop.pc = "L117ret"
    /\ frames' = PopTo([Below EXCEPT !.nested = "returned"])
    /\ UNCHANGED <<avars, mvars>>

\* lines 97-98 and 100-101: self() or cls() is called
CallSelfOrCls(fn) ==
    /\ CanCall
    /\ frames' = Append(SetBTop([BTop EXCEPT !.via = fn, !.result = Unset]),
                        Frame(fn, NoLocals, "call"))
    /\ UNCHANGED <<avars, mvars>>

\* resolve_dynamic_var(name) is called: by self() with 'self', by cls() with
\* 'cls', or directly with any name
EnterResolver(n) ==
    Frame("resolve_dynamic_var", [NoLocals EXCEPT !["name"] = n], "L91")

R_CallFrom ==
    /\ frames # <<>> /\ BTop.code \in {"self", "cls"} /\ BTop.pc = "call"
    /\ frames' = Append(SetBTop([BTop EXCEPT !.pc = "ret"]), EnterResolver(BTop.code))
    /\ UNCHANGED <<avars, mvars>>

R_CallDirect(n) ==
    /\ CanCall
    /\ frames' = Append(SetBTop([BTop EXCEPT !.via = "direct", !.result = Unset]),
                        EnterResolver(n))
    /\ UNCHANGED <<avars, mvars>>

InResolver(pc) ==
    frames # <<>> /\ BTop.code = "resolve_dynamic_var" /\ BTop.pc = pc

\* line 91: frame = sys._getframe(0), the resolver's own frame
GetFrame0_Caller == Len(frames) - 1

GetFrame0 == Len(frames)

R_L91 ==
    /\ InResolver("L91")
    /\ frames' = SetBTop([BTop EXCEPT !.at = GetFrame0,
                                      !.locals = [@ EXCEPT !["frame"] = "<frame>"],
                                      !.pc = "L92"])
    /\ UNCHANGED <<avars, mvars>>

\* the value of the function when the loop ends: it has no return statement
\* after the loop
LoopExit_Raise == "NameError"

LoopExit == None

\* line 92: while frame is not None
R_L92 ==
    /\ InResolver("L92")
    /\ IF BTop.at # 0
       THEN frames' = SetBTop([BTop EXCEPT !.pc = "L93"])
       ELSE frames' = SetBTop([BTop EXCEPT !.result = LoopExit, !.pc = "return"])
    /\ UNCHANGED <<avars, mvars>>

\* lines 93-94: if name in frame.f_locals: return frame.f_locals[name]
R_L93 ==
    /\ InResolver("L93")
    /\ LET n == BTop.locals["name"]
           ls == frames[BTop.at].locals
       IN IF ls[n] # Absent
          THEN frames' = SetBTop([BTop EXCEPT !.result = ls[n], !.pc = "return"])
          ELSE frames' = SetBTop([BTop EXCEPT !.pc = "L95"])
    /\ UNCHANGED <<avars, mvars>>

\* line 95: frame = frame.f_back
f_back(i) == i - 1

R_L95 ==
    /\ InResolver("L95")
    /\ frames' = SetBTop([BTop EXCEPT !.at = f_back(@), !.pc = "L92"])
    /\ UNCHANGED <<avars, mvars>>

\* the resolver returns to its caller; self() and cls() return what it
\* returned (lines 98 and 101)
R_Return ==
    /\ frames # <<>>
    /\ \/ InResolver("return")
       \/ BTop.code \in {"self", "cls"} /\ BTop.pc = "ret" /\ BTop.result # Unset
    /\ frames' = PopTo([Below EXCEPT !.result = BTop.result])
    /\ UNCHANGED <<avars, mvars>>

\* ------------------------------------------------------------------------
\* Class construction
\* ------------------------------------------------------------------------

\* An object of a class namespace is the sequence of its type followed by
\* the object it wraps, if it wraps one: <<"function">> is a function,
\* <<"ImplicitSelfDecorator", "function">> a descriptor whose func is a
\* function.
NamespaceValues ==
    {<<"function">>, <<"class">>, <<"str">>,
     <<"ImplicitSelfDecorator", "function">>,
     <<"decorated", "function">>}

Metaclasses == {"ImplicitSelfMetaclass", "SelfClsMetaclass"}

\* callable(v): functions, classes and the closures decorated are callable;
\* strings are not, and neither descriptor class defines __call__
Callable_FunctionsOnly(v) == v[1] = "function"

Callable(v) == v[1] \in {"function", "class", "decorated"}

\* ImplicitSelfDecorator(v) (lines 12-13), SelfClsDescriptor(v) (lines 106-107)
Wrap(mc, v) ==
    <<IF mc = "ImplicitSelfMetaclass" THEN "ImplicitSelfDecorator"
      ELSE "SelfClsDescriptor">> \o v

Created == klass # <<>>

\* lines 49-51 and 124-126: one round of "for key in d"
M_Loop ==
    /\ ~Created
    /\ keyIdx < Len(d)
    /\ LET key == keyIdx + 1 IN
       d' = IF Callable(d[key]) THEN [d EXCEPT ![key] = Wrap(metaclass, d[key])]
            ELSE d
    /\ keyIdx' = keyIdx + 1
    /\ UNCHANGED <<d0, metaclass, klass, bound>>
    /\ UNCHANGED <<avars, bvars>>

\* lines 52 and 127: type.__new__(cls, name, bases, d)
M_TypeNew ==
    /\ ~Created
    /\ keyIdx = Len(d)
    /\ klass' = d
    /\ UNCHANGED <<d, d0, metaclass, keyIdx, bound>>
    /\ UNCHANGED <<avars, bvars>>

\* an attribute of the class is looked up: a descriptor answers with the
\* closure decorated around its func (lines 15-43, 109-119), anything else
\* is returned as it is
M_GetAttr(key) ==
    /\ Created
    /\ bound' = IF klass[key][1] \in {"ImplicitSelfDecorator", "SelfClsDescriptor"}
                THEN <<"decorated">> \o Tail(klass[key])
                ELSE klass[key]
    /\ UNCHANGED <<d, d0, metaclass, keyIdx, klass>>
    /\ UNCHANGED <<avars, bvars>>

\* ------------------------------------------------------------------------
\* Specifications
\* ------------------------------------------------------------------------

\* the module's globals before any call: the names are absent (a module
\* that only defines classes), or bound to the functions of lines 97-101
\* (implicit_self itself)
InitGlobals ==
    globals \in {[self |-> Absent, cls |-> Absent],
                 [self |-> "fn_self", cls |-> "fn_cls"]}

InitA ==
    /\ stack = [t \in Threads |-> <<>>]
    /\ exc = [t \in Threads |-> NoExc]
    /\ outcomes = [t \in Threads |-> {}]

\* the frame stack before any call: the frame of the module that runs, whose
\* f_locals is its globals. The module binds the names self and cls (it is
\* implicit_self, or it imported them) or it does not
ModuleLocals ==
    {NoLocals, [NoLocals EXCEPT !["self"] = "fn_self", !["cls"] = "fn_cls"]}

IdleB == frames = <<Frame("<module>", NoLocals, "run")>>

IdleMeta ==
    /\ d = <<>>
    /\ d0 = <<>>
    /\ metaclass = None
    /\ keyIdx = 0
    /\ klass = <<>>
    /\ bound = <<>>

Init == InitGlobals /\ InitA /\ IdleB /\ IdleMeta

InitB ==
    /\ globals = [self |-> "fn_self", cls |-> "fn_cls"]
    /\ InitA
    /\ \E ls \in ModuleLocals : frames = <<Frame("<module>", ls, "run")>>
    /\ IdleMeta

NextB ==
    \/ \E ls \in PlainLocals : CallPlain(ls)
    \/ \E r \in Receivers : CallDecorated(r)
    \/ D_L114
    \/ D_L115
    \/ D_L117
    \/ ReturnUser
    \/ D_Return
    \/ \E fn \in {"self", "cls"} : CallSelfOrCls(fn)
    \/ R_CallFrom
    \/ \E n \in Names : R_CallDirect(n)
    \/ R_L91
    \/ R_L92
    \/ R_L93
    \/ R_L95
    \/ R_Return

SpecB == InitB /\ [][NextB]_vars

\* a class statement whose namespace holds MaxKeys attributes, under either
\* metaclass
InitMeta ==
    /\ globals = [self |-> "fn_self", cls |-> "fn_cls"]
    /\ InitA
    /\ IdleB
    /\ d0 \in [1..MaxKeys -> NamespaceValues]
    /\ d = d0
    /\ metaclass \in Metaclasses
    /\ keyIdx = 0
    /\ klass = <<>>
    /\ bound = <<>>

NextMeta ==
    \/ M_Loop
    \/ M_TypeNew
    \/ \E key \in 1..MaxKeys : M_GetAttr(key)

SpecMeta == InitMeta /\ [][NextMeta]_vars

\* single-threaded execution: only the main thread runs
Next ==
    \/ \E r \in Receivers : Call(MainThread, r, MaxDepth, globals)
    \/ L21(MainThread)
    \/ L22(MainThread)
    \/ L24(MainThread)
    \/ L25(MainThread)
    \/ L28(MainThread)
    \/ L29(MainThread)
    \/ L30(MainThread)
    \/ ReadSelf(MainThread)
    \/ ReadCls(MainThread)
    \/ BodyRaise(MainThread)
    \/ L32(MainThread)
    \/ L36(MainThread)
    \/ L41(MainThread)
    \/ Unwind(MainThread)
    \/ BodyCatch(MainThread)
    \/ TopCatch(MainThread)

Spec == Init /\ [][Next]_vars

\* two threads call decorated methods of the same module at the same time,
\* each on its own instance; every statement of decorated is one step
RecvOf(t) == IF t = "T1" THEN "a" ELSE "b"
Other(t) == IF t = "T1" THEN "T2" ELSE "T1"

NextConc ==
    \/ \E t \in Threads : Call(t, RecvOf(t), 1, NoSnapshot)
    \/ \E t \in Threads : L21(t)
    \/ \E t \in Threads : L22(t)
    \/ \E t \in Threads : L24(t)
    \/ \E t \in Threads : L25(t)
    \/ \E t \in Threads : L28(t)
    \/ \E t \in Threads : L29(t)
    \/ \E t \in Threads : L30(t)
    \/ \E t \in Threads : ReadSelf(t)
    \/ \E t \in Threads : ReadCls(t)
    \/ \E t \in Threads : L32(t)
    \/ \E t \in Threads : L36(t)
    \/ \E t \in Threads : L41(t)
    \/ \E t \in Threads : Unwind(t)
    \/ \E t \in Threads : TopCatch(t)

SpecConc == Init /\ [][NextConc]_vars

\* ------------------------------------------------------------------------
\* Mechanism A, single-threaded (Spec)
\* ------------------------------------------------------------------------
Frames(t) == {stack[t][i] : i \in 1..Depth(t)}

OwnReads(f) ==
    /\ f.readself \in {Unread, f.selfvar}
    /\ f.readcls \in {Unread, f.clsvar}

\* C1: whatever the body of a call obtained as a.m (resp. C.m) has read from
\* the global names is the binding of its own call: self is a (resp. None)
\* and cls is type(a) (resp. C).
C1_BodyReadsOwnBinding ==
    \A f \in Frames(MainThread) : OwnReads(f)

\* C2: when a decorated call is about to return normally (line 41), both
\* names are as they were when the call was made: absent if they were
\* absent, bound to the same value otherwise. This includes calls whose body
\* made further decorated calls.
C2_RestoredAfterReturn ==
    \A f \in Frames(MainThread) : f.pc = "L41" => globals = f.pre

C2_Witness ==
    /\ Depth(MainThread) = 1
    /\ Top(MainThread).pc = "L41"
    /\ Top(MainThread).nested = "returned"
    /\ Top(MainThread).pre = [self |-> Absent, cls |-> Absent]
    /\ globals = [self |-> Absent, cls |-> Absent]

Binding(f) == [self |-> f.selfvar, cls |-> f.clsvar]

\* C3 as stated: once the exception has left a decorated call, the globals
\* hold the values injected for that call.
C3_LeakIsOwnBinding ==
    (Raising(MainThread) /\ exc[MainThread].tb # <<>>)
        => globals = Binding(exc[MainThread].tb[Len(exc[MainThread].tb)])

\* C3, amended: once the exception has left a decorated call, nothing has
\* been restored or removed: both names are bound, and they hold the values
\* injected for the innermost call the exception came out of (when the body
\* of that call had not already caught an exception of a nested decorated
\* call), through every enclosing call the exception leaves after that.
C3_LeakIsBindingAtRaise ==
    (Raising(MainThread) /\ exc[MainThread].tb # <<>>)
        => /\ globals.self # Absent
           /\ globals.cls # Absent
           /\ exc[MainThread].tb[1].nested # "raised"
                 => globals = Binding(exc[MainThread].tb[1])

C3_Witness ==
    /\ Raising(MainThread)
    /\ Depth(MainThread) = 0
    /\ Len(exc[MainThread].tb) = 2
    /\ exc[MainThread].tb[1].selfvar = "b"
    /\ exc[MainThread].tb[2].selfvar = "a"
    /\ exc[MainThread].tb[2].pre = [self |-> Absent, cls |-> Absent]
    /\ globals = [self |-> "b", cls |-> "A2"]

\* the body of f made a nested call on another receiver, the nested call
\* returned normally, and the body has gone on to read both names
ReadAfterNestedReturn(f) ==
    /\ f.nested = "returned"
    /\ Access(f.nestedRecv) # [selfvar |-> f.selfvar, clsvar |-> f.clsvar]
    /\ f.readself # Unread
    /\ f.readcls # Unread

\* C5 as stated: a body that made a nested decorated call on another
\* instance (both calls returning normally) reads, after it, a self or cls
\* that is not the binding of its own call.
C5_NestedClobbers ==
    \A f \in Frames(MainThread) : ReadAfterNestedReturn(f) => ~OwnReads(f)

\* C5, amended: nested calls that return normally do not clobber each
\* other: the inner call replaces the bindings only while it is active, so
\* the inner body reads the inner binding and the outer body, after the
\* inner call has returned, reads its own binding again.
C5_NestedKeepsBindings ==
    \A i \in 1..Depth(MainThread) :
        LET f == stack[MainThread][i] IN
        (f.nested = "returned" \/ (i > 1 /\ f.nested = "none")) => OwnReads(f)

C5_Witness ==
    /\ Depth(MainThread) = 1
    /\ ReadAfterNestedReturn(Top(MainThread))
    /\ Top(MainThread).selfvar = "a"
    /\ Top(MainThread).nestedRecv = "b"
    /\ Top(MainThread).readself = "a"
    /\ Top(MainThread).readcls = "A"

\* ------------------------------------------------------------------------
\* Mechanism A, two threads (SpecConc)
\* ------------------------------------------------------------------------
Quiescent == \A t \in Threads : Depth(t) = 0 /\ ~Raising(t)

\* the other thread has executed line 28 at least once
HasInjected(o) ==
    \/ outcomes[o] # {}
    \/ Raising(o)
    \/ Depth(o) = 1 /\ Top(o).pc \notin {"L21", "L22", "L24", "L25", "L28"}

\* C4: with two threads calling at the same time, the body running for a can
\* read the other call's bindings. What a body reads that is not its own
\* binding is the binding the other thread injected (and the other thread
\* has then executed its injection), or the value the other thread put back
\* when it restored.
C4_ForeignReadIsOtherBinding ==
    \A t \in Threads : \A f \in Frames(t) :
        /\ f.readself \in {Unread, f.selfvar, RecvOf(Other(t)), "fn_self"}
        /\ f.readcls \in {Unread, f.clsvar, TypeOf(RecvOf(Other(t))), "fn_cls"}
        /\ (f.readself = RecvOf(Other(t)) \/ f.readcls = TypeOf(RecvOf(Other(t))))
              => HasInjected(Other(t))

C4_Witness ==
    /\ Depth("T1") = 1 /\ Depth("T2") = 1
    /\ Top("T1").selfvar = "a"
    /\ Top("T1").readself = "b"
    /\ Top("T1").readcls = "A2"
    /\ Top("T2").pc = "L81"

C10_LeakWithoutError ==
    /\ Quiescent
    /\ globals.self = "a"
    /\ \A t \in Threads : outcomes[t] = {Returned}

\* ------------------------------------------------------------------------
\* Mechanism B (SpecB)
\* ------------------------------------------------------------------------

\* frame i has had the answer of a call of self() or cls() it made
Answered(i) == frames[i].via \in {"self", "cls"} /\ frames[i].result # Unset

\* C6: self() evaluated in the body of the innermost active decorated call
\* returns the instance of that call (None for an access through the
\* class) and cls() its type (the accessing class), also in a chain of
\* nested decorated calls and in the enclosing body after an inner call
\* has returned.
C6_InnermostBindingWins ==
    \A i \in 1..Len(frames) :
        (frames[i].code = "m" /\ Answered(i)) =>
            LET dec == frames[i - 1].locals IN
            /\ frames[i - 1].code = "decorated"
            /\ frames[i].via = "self" => frames[i].result = dec["obj"]
            /\ frames[i].via = "cls" =>
                  frames[i].result =
                      IF dec["obj"] # None THEN TypeOf(dec["obj"]) ELSE dec["cls_"]

C6_Witness ==
    /\ Len(frames) = 3
    /\ frames[2].code = "decorated" /\ frames[2].locals["obj"] = "a"
    /\ frames[3].code = "m"
    /\ frames[3].nested = "returned" /\ frames[3].nestedRecv = "b"
    /\ frames[3].via = "self" /\ frames[3].result = "a"

NoWrapperFrame(i) == \A j \in 1..i : frames[j].code # "decorated"

\* C7 as stated: on a stack with no active SelfClsDescriptor wrapper frame,
\* self() and cls() return None.
C7_NoneWithoutWrapper ==
    \A i \in 1..Len(frames) :
        (Answered(i) /\ NoWrapperFrame(i)) => frames[i].result = None

\* C7, amended: on a stack none of whose frames has a local variable named
\* self (resp. cls), self() (resp. cls()) returns None and does not raise.
\* A frame of an ordinary function with such a local, or a module-level
\* frame whose globals bind the name, answers the lookup like a wrapper
\* frame does.
C7_NoneWithoutBinding ==
    \A i \in 1..Len(frames) :
        (Answered(i) /\ \A j \in 1..i : frames[j].locals[frames[i].via] = Absent)
            => frames[i].result = None

C7_Witness ==
    /\ Len(frames) = 2
    /\ frames[1].locals = NoLocals
    /\ frames[2].code = "plain" /\ frames[2].locals = NoLocals
    /\ frames[2].via = "self" /\ frames[2].result = None

\* the value bound to n in the innermost of the frames 1..k that has n as a
\* local variable, None when there is none
Binders(k, n) == {j \in 1..k : frames[j].locals[n] # Absent}
FirstBinding(k, n) ==
    IF Binders(k, n) = {} THEN None
    ELSE frames[CHOOSE j \in Binders(k, n) : \A h \in Binders(k, n) : h <= j].locals[n]

ResolverDone == InResolver("return")

\* C8: resolve_dynamic_var(name) returns the value bound to name in the
\* first frame, from its own frame outward, that has name as a local, and
\* None when no frame has; while it runs, no frame but its own changes.
C8_FirstFrameOutward ==
    /\ [](ResolverDone =>
            BTop.result = FirstBinding(Len(frames), BTop.locals["name"]))
    /\ [][(frames # <<>> /\ BTop.code = "resolve_dynamic_var") =>
            \A j \in 1..(Len(frames) - 1) :
                /\ frames'[j].locals = frames[j].locals
                /\ frames'[j].code = frames[j].code]_vars

C8_Witness ==
    /\ ResolverDone
    /\ Len(frames) = 5
    /\ BTop.locals["name"] = "self"
    /\ frames[1].locals["self"] = "fn_self"
    /\ frames[2].code = "decorated" /\ frames[2].locals["self"] = "a"
    /\ frames[4].code = "plain" /\ frames[4].locals["self"] = Absent
    /\ BTop.result = "a"

\* ------------------------------------------------------------------------
\* Class construction (SpecMeta)
\* ------------------------------------------------------------------------
DescriptorOf(mc) ==
    IF mc = "ImplicitSelfMetaclass" THEN "ImplicitSelfDecorator"
    ELSE "SelfClsDescriptor"

\* C9: the class created has the keys of the namespace of its class body;
\* under each key whose value was callable there is one descriptor of the
\* metaclass's kind whose func is that value, under every other key the
\* value itself; and this stays so after the class is created.
C9_CallablesWrappedOnce ==
    Created =>
        /\ DOMAIN klass = DOMAIN d0
        /\ \A key \in DOMAIN d0 :
              IF d0[key][1] \in {"function", "class", "decorated"}
              THEN /\ klass[key][1] = DescriptorOf(metaclass)
                   /\ Tail(klass[key]) = d0[key]
              ELSE klass[key] = d0[key]

C9_Witness ==
    /\ Created
    /\ metaclass = "SelfClsMetaclass"
    /\ d0[1] = <<"function">>
    /\ d0[2] = <<"str">>
    /\ d0[3] = <<"class">>
    /\ klass[1] = <<"SelfClsDescriptor", "function">>
    /\ bound = <<"decorated", "function">>

====
